---- MODULE Spec2Model ----
(***************************************************************************)
(* shhoook: a configuration-driven HTTP gateway (src/src/main.go).         *)
(* Endpoint definitions are loaded and compiled at start-up; every request *)
(* is routed to the first endpoint matching method and path, authenticated,*)
(* its parameters merged, the script template expanded and the command run *)
(* under the endpoint's timeout.                                           *)
(*                                                                         *)
(* Go strings are modelled as sequences of one-character strings, so that  *)
(* splitting, trimming, searching and slicing are computed as the code     *)
(* computes them.                                                          *)
(***************************************************************************)
EXTENDS Integers, Sequences, FiniteSets, TLC

VARIABLES
    files,     \* the endpoint definitions WalkDir hands to the loader, in walk order
    eps,       \* the registry: the loaded, compiled and sorted endpoints
    phase,     \* "boot" | "serving" | "fatal" (log.Fatalf)
    req,       \* the request being handled
    pc,        \* position of the handler
    sel,       \* index in eps of the selected endpoint (0: none)
    pv,        \* path variables of the selected endpoint
    params,    \* the merged parameter mapping
    ti,        \* applyTemplate: index of the token being expanded
    res,       \* applyTemplate: the working string of the current token
    out,       \* applyTemplate: the expanded tokens so far
    ctxErr,    \* ctx.Err(): "none" | "deadline" | "canceled"
    child,     \* the child process: "none" | "running" | "exit0" | "exit1" | "killed"
    desc,      \* a descendant of the child that holds the output pipe
    buf,       \* number of output chunks captured from the pipe
    werr,      \* err of cmd.CombinedOutput(): "unset" | "nil" | "exit" | "start" | "ctx"
    resp,      \* the response written
    hist       \* which stages of the pipeline ran for this request

vars == <<files, eps, phase, req, pc, sel, pv, params, ti, res, out,
          ctxErr, child, desc, buf, werr, resp, hist>>

-----------------------------------------------------------------------------
(* Bounds of the model *)

MaxFiles == 2      \* endpoint definitions in the configuration directory
MaxOut == 1        \* output chunks a command writes
MaxRes == 7        \* length of applyTemplate's working string
MaxScript == 2     \* tokens of a script expanded on its own

-----------------------------------------------------------------------------
(* Strings *)

Range(s) == {s[i] : i \in 1..Len(s)}

\* strings.Index(s, c) for a one-character c, 0-based; -1 when absent
Index(s, c) ==
    IF \E i \in 1..Len(s) : s[i] = c
    THEN (CHOOSE i \in 1..Len(s) : s[i] = c /\ \A j \in 1..(i-1) : s[j] # c) - 1
    ELSE -1

\* the Go slice s[lo:hi], 0-based and half-open
Slice(s, lo, hi) == SubSeq(s, lo + 1, hi)

\* strings.TrimPrefix(s, "/")
TrimPrefix(s) == IF Len(s) > 0 /\ s[1] = "/" THEN Tail(s) ELSE s

RECURSIVE TrimLeft(_)
TrimLeft(s) == IF Len(s) > 0 /\ s[1] = " " THEN TrimLeft(Tail(s)) ELSE s

RECURSIVE TrimRight(_)
TrimRight(s) ==
    IF Len(s) > 0 /\ s[Len(s)] = " " THEN TrimRight(SubSeq(s, 1, Len(s) - 1)) ELSE s

\* strings.TrimSpace
TrimSpace(s) == TrimRight(TrimLeft(s))

\* strings.Split(s, sep) for a one-character sep: always at least one part
RECURSIVE Split(_, _)
Split(s, sep) ==
    LET k == Index(s, sep)
    IN  IF k < 0 THEN <<s>>
        ELSE <<Slice(s, 0, k)>> \o Split(Slice(s, k + 1, Len(s)), sep)

\* strings.SplitN(s, sep, 2)
SplitN2(s, sep) ==
    LET k == Index(s, sep)
    IN  IF k < 0 THEN <<s>> ELSE <<Slice(s, 0, k), Slice(s, k + 1, Len(s))>>

\* byte values of the characters the model's uri templates use
Code(c) ==
    CASE c = "*" -> 42
      [] c = "/" -> 47
      [] c = ":" -> 58
      [] c = "a" -> 97
      [] c = "b" -> 98
      [] c = "e" -> 101
      [] c = "h" -> 104
      [] c = "l" -> 108
      [] c = "r" -> 114
      [] c = "t" -> 116
      [] OTHER -> 120

\* the Go string comparison a < b: bytewise lexicographic
RECURSIVE StrLess(_, _)
StrLess(a, b) ==
    IF Len(b) = 0 THEN FALSE
    ELSE IF Len(a) = 0 THEN TRUE
    ELSE IF Code(a[1]) # Code(b[1]) THEN Code(a[1]) < Code(b[1])
    ELSE StrLess(Tail(a), Tail(b))

-----------------------------------------------------------------------------
(* Loading: parseAuth, time.ParseDuration, compileURI, mustEndpointFromFile *)

\* the empty mapping: also what a definition without "query" or "body" gets
EmptyMap == [k \in {} |-> <<>>]

\* parseAuth: "Header:Token", both trimmed and non-empty
parseAuth(a) ==
    LET parts == SplitN2(a, ":")
    IN  IF Len(parts) # 2 THEN [err |-> TRUE, hdr |-> <<>>, tok |-> <<>>]
        ELSE LET h == TrimSpace(parts[1])
                 t == TrimSpace(parts[2])
             IN  IF h = <<>> \/ t = <<>>
                 THEN [err |-> TRUE, hdr |-> <<>>, tok |-> <<>>]
                 ELSE [err |-> FALSE, hdr |-> h, tok |-> t]

Digits == {"0", "1", "8"}

DigitVal(c) == IF c = "0" THEN 0 ELSE IF c = "1" THEN 1 ELSE 8

\* length of the longest prefix of s made of digits (isDigit = TRUE) or of
\* non-digits (isDigit = FALSE)
RECURSIVE Run(_, _)
Run(s, isDigit) ==
    IF Len(s) > 0 /\ ((s[1] \in Digits) = isDigit) THEN 1 + Run(Tail(s), isDigit) ELSE 0

RECURSIVE Number(_)
Number(s) == IF s = <<>> THEN 0 ELSE 10 * Number(SubSeq(s, 1, Len(s) - 1)) + DigitVal(s[Len(s)])

\* seconds of a unit of time.ParseDuration's unitMap; 0 for an unknown unit
UnitSeconds(u) == IF u = <<"s">> THEN 1 ELSE IF u = <<"m">> THEN 60 ELSE 0

\* the loop of time.ParseDuration over ([0-9]+ unit)+ : [err, d]
RECURSIVE DurationGroups(_)
DurationGroups(s) ==
    IF s = <<>> THEN [err |-> FALSE, d |-> 0]
    ELSE LET n == Run(s, TRUE)
             r == Slice(s, n, Len(s))
             u == Run(r, FALSE)
             unit == Slice(r, 0, u)
             rest == DurationGroups(Slice(r, u, Len(r)))
         IN  IF n = 0 \/ u = 0 \/ UnitSeconds(unit) = 0 \/ rest.err
             THEN [err |-> TRUE, d |-> 0]
             ELSE [err |-> FALSE, d |-> Number(Slice(s, 0, n)) * UnitSeconds(unit) + rest.d]

\* time.ParseDuration on strings of sign, digits and unit letters, in seconds:
\* an optional sign, then "0" or one or more number-unit groups
ParseDuration(s) ==
    LET signed == Len(s) > 0 /\ s[1] \in {"-", "+"}
        neg == signed /\ s[1] = "-"
        body == IF signed THEN Tail(s) ELSE s
        g == DurationGroups(body)
    IN  IF body = <<"0">> THEN [err |-> FALSE, d |-> 0]
        ELSE IF body = <<>> \/ g.err THEN [err |-> TRUE, d |-> 0]
        ELSE [err |-> FALSE, d |-> IF neg THEN 0 - g.d ELSE g.d]

\* regexp/syntax isValidCaptureName: non-empty, letters, digits and "_" only
WordChars == {"a", "b", "e", "h", "l", "r", "t", "x", "_", "0", "1", "8"}

ValidCaptureName(n) == n # <<>> /\ Range(n) \subseteq WordChars

\* one path segment of the compiled expression: QuoteMeta(s), (?P<name>[^/]+)
\* or (?P<name>.*)
Segment(s) ==
    IF s[1] = ":" THEN [kind |-> "cap", text |-> Tail(s)]
    ELSE IF s[1] = "*" THEN [kind |-> "wild", text |-> Tail(s)]
    ELSE [kind |-> "lit", text |-> s]

\* compileURI: the expression is the sequence of its non-empty segments, each
\* preceded by "/", between "^" and "$"
compileURI(pattern) ==
    LET segs == Split(TrimPrefix(pattern), "/")
        kept == SelectSeq(segs, LAMBDA s : s # <<>>)
        re == [i \in 1..Len(kept) |-> Segment(kept[i])]
        misplaced == \E i \in 1..Len(segs) :
                        /\ segs[i] # <<>>
                        /\ segs[i][1] = "*"
                        /\ i # Len(segs)
        badName == \E i \in 1..Len(re) :
                        re[i].kind # "lit" /\ ~ValidCaptureName(re[i].text)
    IN  IF misplaced \/ badName
        THEN [err |-> TRUE, re |-> <<>>, wild |-> FALSE]
        ELSE [err |-> FALSE, re |-> re,
              wild |-> \E i \in 1..Len(re) : re[i].kind = "wild"]

\* mustEndpointFromFile: the compiled endpoint of one definition, or an error
mustEndpointFromFile(raw) ==
    IF ~raw.json THEN [err |-> TRUE]
    ELSE IF raw.URI = <<>> \/ raw.Method = "" \/ raw.Auth = <<>> \/ Len(raw.Script) = 0
    THEN [err |-> TRUE]
    ELSE LET a == parseAuth(raw.Auth)
             ttl == IF raw.TTL = <<>> THEN <<"8", "s">> ELSE raw.TTL
             d == ParseDuration(ttl)
             c == compileURI(raw.URI)
         IN  IF a.err \/ d.err \/ c.err THEN [err |-> TRUE]
             ELSE [err |-> FALSE,
                   ep |-> [URI |-> raw.URI, Method |-> raw.Method,
                           Query |-> raw.Query, Body |-> raw.Body,
                           Auth |-> raw.Auth, TTL |-> ttl,
                           Error |-> IF raw.Error = 0 THEN 500 ELSE raw.Error,
                           Script |-> raw.Script,
                           pathRe |-> c.re, wildcard |-> c.wild,
                           header |-> a.hdr, token |-> a.tok, timeout |-> d.d]]

\* the outcomes of sort.Slice(eps, eps[i].URI < eps[j].URI): the sort is not
\* stable, so any arrangement with no later uri smaller than an earlier one
SortSlice(s) ==
    {p \in [1..Len(s) -> Range(s)] :
        /\ \E f \in [1..Len(s) -> 1..Len(s)] :
              /\ \A i, j \in 1..Len(s) : i # j => f[i] # f[j]
              /\ \A i \in 1..Len(s) : p[i] = s[f[i]]
        /\ \A i, j \in 1..Len(s) : i < j => ~StrLess(p[j].URI, p[i].URI)}

\* loadEndpoints: every file compiles, at least one endpoint, sorted by uri;
\* the set of its possible results
loadEndpoints(fs) ==
    LET r == [i \in 1..Len(fs) |-> mustEndpointFromFile(fs[i])]
    IN  IF Len(fs) = 0 \/ \E i \in 1..Len(fs) : r[i].err
        THEN {[err |-> TRUE, eps |-> <<>>]}
        ELSE {[err |-> FALSE, eps |-> s] : s \in SortSlice([i \in 1..Len(fs) |-> r[i].ep])}

\* pathRe.FindStringSubmatch(p): [ok, m], m the captures in order
RECURSIVE Join(_)
Join(parts) ==
    IF Len(parts) = 0 THEN <<>>
    ELSE IF Len(parts) = 1 THEN parts[1]
    ELSE parts[1] \o <<"/">> \o Join(Tail(parts))

SegAccepts(seg, part) ==
    IF seg.kind = "lit" THEN part = seg.text
    ELSE IF seg.kind = "cap" THEN Len(part) > 0
    ELSE TRUE

FindStringSubmatch(re, p) ==
    LET n == Len(re)
        parts == Split(Tail(p), "/")
        wild == n > 0 /\ re[n].kind = "wild"
        fits == IF wild THEN Len(parts) >= n ELSE Len(parts) = n
        got == [i \in 1..n |->
                  IF re[i].kind = "wild" THEN Join(SubSeq(parts, n, Len(parts)))
                  ELSE parts[i]]
        caps == {i \in 1..n : re[i].kind # "lit"}
    IN  IF n = 0 THEN [ok |-> p = <<>>, m |-> <<>>, names |-> <<>>]
        ELSE IF Len(p) = 0 \/ p[1] # "/" \/ ~fits
                \/ \E i \in 1..n : ~SegAccepts(re[i], got[i])
        THEN [ok |-> FALSE, m |-> <<>>, names |-> <<>>]
        ELSE [ok |-> TRUE,
              m |-> [i \in 1..n |-> got[i]],
              names |-> [i \in 1..n |-> IF i \in caps THEN re[i].text ELSE <<>>]]

\* pathVars: the captures by name; a later group of the same name overwrites
pathVars(ep, p) ==
    LET f == FindStringSubmatch(ep.pathRe, p)
        named == {i \in 1..Len(f.m) : f.names[i] # <<>>}
        keys == {f.names[i] : i \in named}
    IN  [ok |-> f.ok,
         vars |-> IF f.ok
                  THEN [k \in keys |->
                          f.m[CHOOSE i \in named :
                                 f.names[i] = k /\ \A j \in named : f.names[j] = k => j <= i]]
                  ELSE EmptyMap]

-----------------------------------------------------------------------------
(* Request handling: mergeParams, applyTemplate, the handlers of main *)

Lookup(m, k) == IF k \in DOMAIN m THEN m[k] ELSE <<>>

\* toString of a decoded JSON value (the decoder uses json.Number)
toString(v) ==
    CASE v.t = "string" -> v.v
      [] v.t = "number" -> v.v
      [] v.t = "true" -> <<"t", "r", "u", "e">>
      [] v.t = "false" -> <<"f", "a", "l", "s", "e">>
      [] v.t = "null" -> <<"n", "u", "l", "l">>
      [] OTHER -> v.v

\* what dec.Decode(&body) leaves in body: the fields of a JSON object, nothing
\* for an empty, malformed, non-object or null body
DecodeBody(b) == IF b.kind = "object" THEN b.fields ELSE EmptyMap

\* mergeParams with the path variables merged after the URL query
mergeParams_PathOverQuery(ep, vs, r) ==
    LET body == DecodeBody(r.Body)
        fromBody == [k \in DOMAIN body |-> toString(body[k])]
        fromQuery == [k \in DOMAIN r.Query |-> r.Query[k][1]]
    IN  fromBody @@ vs @@ fromQuery @@ ep.Body @@ ep.Query

\* mergeParams: query defaults, body defaults, path variables, URL query
\* (the first value of each key), JSON body; a later source overwrites
mergeParams(ep, vs, r) ==
    LET body == DecodeBody(r.Body)
        fromBody == [k \in DOMAIN body |-> toString(body[k])]
        fromQuery == [k \in DOMAIN r.Query |-> r.Query[k][1]]
    IN  fromBody @@ fromQuery @@ vs @@ ep.Body @@ ep.Query

\* the inner loop taking a "{" that nothing closes for literal text
ExpandOnce_UnclosedIsText(s, ps) ==
    LET b == Index(s, "{")
        e == Index(Slice(s, b + 1, Len(s)), "}")
        close == e + b + 1
        name == Slice(s, b + 1, close)
    IN  IF b < 0 \/ e < 0 THEN [kind |-> "done", s |-> s]
        ELSE [kind |-> "more",
              s |-> Slice(s, 0, b) \o Lookup(ps, name) \o Slice(s, close + 1, Len(s))]

\* one pass of applyTemplate's inner loop over the working string s:
\* done (no "{"), an error (no "}" after it), or the string after one
\* substitution
ExpandOnce(s, ps) ==
    LET b == Index(s, "{")
        e == Index(Slice(s, b + 1, Len(s)), "}")
        close == e + b + 1
        name == Slice(s, b + 1, close)
    IN  IF b < 0 THEN [kind |-> "done", s |-> s]
        ELSE IF e < 0 THEN [kind |-> "error", s |-> s]
        ELSE [kind |-> "more",
              s |-> Slice(s, 0, b) \o Lookup(ps, name) \o Slice(s, close + 1, Len(s))]

NoReq == [Method |-> "", Path |-> <<>>, Header |-> EmptyMap, Query |-> EmptyMap,
          Body |-> [kind |-> "none", fields |-> EmptyMap]]

NoResp == [status |-> 0, body |-> "", out |-> 0, marker |-> FALSE]

NoHist == [authed |-> FALSE, merged |-> FALSE, expanded |-> FALSE, spawned |-> FALSE]

HealthPath == <<"/", "h", "e", "a", "l", "t", "h">>

\* r.Header.Get(name)
HeaderGet(r, name) == Lookup(r.Header, name)

\* the auth check (main.go 297) with a request that lacks the header let through
AuthOK_AbsentPasses(r, ep) ==
    HeaderGet(r, ep.header) = ep.token \/ HeaderGet(r, ep.header) = <<>>

\* the auth check (main.go 297): the header's value is the token
AuthOK(r, ep) == HeaderGet(r, ep.header) = ep.token

\* the scan going on to the next endpoint when the matching one fails auth
RECURSIVE Scan_SkipUnauthorized(_, _)
Scan_SkipUnauthorized(r, i) ==
    IF i > Len(eps) THEN 0
    ELSE IF r.Method # eps[i].Method THEN Scan_SkipUnauthorized(r, i + 1)
    ELSE IF pathVars(eps[i], r.Path).ok /\ HeaderGet(r, eps[i].header) = eps[i].token THEN i
    ELSE IF pathVars(eps[i], r.Path).ok /\ i = Len(eps) THEN i
    ELSE Scan_SkipUnauthorized(r, i + 1)

\* the scan of the registry (main.go 282-291) from index i on: the index of
\* the endpoint the loop breaks at, 0 when it runs to the end
RECURSIVE Scan(_, _)
Scan(r, i) ==
    IF i > Len(eps) THEN 0
    ELSE IF r.Method # eps[i].Method THEN Scan(r, i + 1)
    ELSE IF pathVars(eps[i], r.Path).ok THEN i
    ELSE Scan(r, i + 1)

FirstMatch(r) == Scan(r, 1)

\* main: the registry is loaded or the process exits
Boot ==
    /\ phase = "boot"
    /\ \E r \in loadEndpoints(files) :
          /\ phase' = IF r.err THEN "fatal" ELSE "serving"
          /\ eps' = r.eps
    /\ UNCHANGED <<files, req, pc, sel, pv, params, ti, res, out,
                   ctxErr, child, desc, buf, werr, resp, hist>>

\* the mux hands a request to one of the two handlers
Receive(r) ==
    /\ phase = "serving"
    /\ pc = "idle"
    /\ req' = r
    /\ pc' = "mux"
    /\ UNCHANGED <<files, eps, phase, sel, pv, params, ti, res, out,
                   ctxErr, child, desc, buf, werr, resp, hist>>

\* the health handler put behind the auth check of a registry endpoint that
\* matches the request
Health_AuthChecked ==
    /\ pc = "mux"
    /\ req.Path = HealthPath
    /\ resp' = IF FirstMatch(req) # 0 /\ ~AuthOK(req, eps[FirstMatch(req)])
               THEN [status |-> 401, body |-> "unauthorized", out |-> 0, marker |-> FALSE]
               ELSE [status |-> 200, body |-> "ok", out |-> 0, marker |-> FALSE]
    /\ pc' = "done"
    /\ UNCHANGED <<files, eps, phase, req, sel, pv, params, ti, res, out,
                   ctxErr, child, desc, buf, werr, hist>>

\* the handler of "/health"
Health ==
    /\ pc = "mux"
    /\ req.Path = HealthPath
    /\ resp' = [status |-> 200, body |-> "ok", out |-> 0, marker |-> FALSE]
    /\ pc' = "done"
    /\ UNCHANGED <<files, eps, phase, req, sel, pv, params, ti, res, out,
                   ctxErr, child, desc, buf, werr, hist>>

\* the handler of "/": selection and the auth check (main.go 280-300)
Dispatch ==
    /\ pc = "mux"
    /\ req.Path # HealthPath
    /\ LET i == FirstMatch(req)
       IN  IF i = 0
           THEN /\ resp' = [status |-> 404, body |-> "not found", out |-> 0, marker |-> FALSE]
                /\ pc' = "done"
                /\ UNCHANGED <<sel, pv, hist>>
           ELSE /\ sel' = i
                /\ pv' = pathVars(eps[i], req.Path).vars
                /\ IF ~AuthOK(req, eps[i])
                   THEN /\ resp' = [status |-> 401, body |-> "unauthorized",
                                    out |-> 0, marker |-> FALSE]
                        /\ pc' = "done"
                        /\ UNCHANGED hist
                   ELSE /\ pc' = "params"
                        /\ hist' = [hist EXCEPT !.authed = TRUE]
                        /\ UNCHANGED resp
    /\ UNCHANGED <<files, eps, phase, req, params, ti, res, out,
                   ctxErr, child, desc, buf, werr>>

\* params := mergeParams(ep, pv, r), and applyTemplate starts on the first token
ResolveParams ==
    /\ pc = "params"
    /\ params' = mergeParams(eps[sel], pv, req)
    /\ ti' = 1
    /\ res' = eps[sel].Script[1]
    /\ out' = <<>>
    /\ pc' = "template"
    /\ hist' = [hist EXCEPT !.merged = TRUE, !.expanded = TRUE]
    /\ UNCHANGED <<files, eps, phase, req, sel, pv, ctxErr, child, desc, buf, werr, resp>>

\* context.WithTimeout(r.Context(), ep.timeout): done at once when the request
\* is cancelled or the timeout is not positive
WithTimeout(parentErr, timeout) ==
    IF parentErr # "none" THEN parentErr
    ELSE IF timeout <= 0 THEN "deadline"
    ELSE "none"

\* one iteration of applyTemplate's inner loop; after the last token the
\* handler answers 400 on an error or derives the context of the command
TemplateStep ==
    /\ pc = "template"
    /\ LET x == ExpandOnce(res, params)
           script == eps[sel].Script
       IN  CASE x.kind = "more" ->
                  /\ Len(x.s) <= MaxRes
                  /\ res' = x.s
                  /\ UNCHANGED <<ti, out, pc, resp, ctxErr>>
             [] x.kind = "error" ->
                  /\ resp' = [status |-> 400, body |-> "bad template",
                              out |-> 0, marker |-> FALSE]
                  /\ pc' = "done"
                  /\ UNCHANGED <<ti, res, out, ctxErr>>
             [] x.kind = "done" /\ ti < Len(script) ->
                  /\ out' = Append(out, res)
                  /\ ti' = ti + 1
                  /\ res' = script[ti + 1]
                  /\ UNCHANGED <<pc, resp, ctxErr>>
             [] OTHER ->
                  /\ out' = Append(out, res)
                  /\ ctxErr' = WithTimeout(ctxErr, eps[sel].timeout)
                  /\ pc' = "exec"
                  /\ UNCHANGED <<ti, res, resp>>
    /\ UNCHANGED <<files, eps, phase, req, sel, pv, params, child, desc, buf, werr, hist>>

-----------------------------------------------------------------------------
(* Execution: exec.CommandContext(ctx, ...).CombinedOutput() under the timeout *)

\* cmd.Start: refused when ctx is already done, failing when argv[0] cannot be
\* executed, or the child runs
Spawn ==
    /\ pc = "exec"
    /\ \/ /\ ctxErr # "none"
          /\ werr' = "ctx"
          /\ pc' = "respond"
          /\ UNCHANGED <<child, hist>>
       \/ /\ ctxErr = "none"
          /\ werr' = "start"
          /\ pc' = "respond"
          /\ UNCHANGED <<child, hist>>
       \/ /\ ctxErr = "none"
          /\ child' = "running"
          /\ pc' = "waiting"
          /\ hist' = [hist EXCEPT !.spawned = TRUE]
          /\ UNCHANGED werr
    /\ UNCHANGED <<files, eps, phase, req, sel, pv, params, ti, res, out,
                   ctxErr, desc, buf, resp>>

\* the timer of context.WithTimeout fires
DeadlineElapse ==
    /\ pc \in {"exec", "waiting", "respond"}
    /\ ctxErr = "none"
    /\ ctxErr' = "deadline"
    /\ UNCHANGED <<files, eps, phase, req, pc, sel, pv, params, ti, res, out,
                   child, desc, buf, werr, resp, hist>>

\* the client goes away: r.Context() is cancelled
ClientCancel ==
    /\ pc \in {"template", "exec", "waiting", "respond"}
    /\ ctxErr = "none"
    /\ ctxErr' = "canceled"
    /\ UNCHANGED <<files, eps, phase, req, pc, sel, pv, params, ti, res, out,
                   child, desc, buf, werr, resp, hist>>

\* os/exec kills the child once ctx is done; only the child itself
Kill ==
    /\ child = "running"
    /\ ctxErr # "none"
    /\ child' = "killed"
    /\ UNCHANGED <<files, eps, phase, req, pc, sel, pv, params, ti, res, out,
                   ctxErr, desc, buf, werr, resp, hist>>

\* the command starts a process that inherits the output pipe
ChildFork ==
    /\ child = "running"
    /\ desc = "none"
    /\ desc' = "running"
    /\ UNCHANGED <<files, eps, phase, req, pc, sel, pv, params, ti, res, out,
                   ctxErr, child, buf, werr, resp, hist>>

\* the command or its descendant writes to the pipe
ChildWrite ==
    /\ child = "running" \/ desc = "running"
    /\ buf < MaxOut
    /\ buf' = buf + 1
    /\ UNCHANGED <<files, eps, phase, req, pc, sel, pv, params, ti, res, out,
                   ctxErr, child, desc, werr, resp, hist>>

\* the command ends on its own, with status 0 or not
ChildExit(status) ==
    /\ child = "running"
    /\ child' = status
    /\ UNCHANGED <<files, eps, phase, req, pc, sel, pv, params, ti, res, out,
                   ctxErr, desc, buf, werr, resp, hist>>

\* the descendant ends and closes its end of the pipe
DescExit ==
    /\ desc = "running"
    /\ desc' = "gone"
    /\ UNCHANGED <<files, eps, phase, req, pc, sel, pv, params, ti, res, out,
                   ctxErr, child, buf, werr, resp, hist>>

\* cmd.Wait returns: the child is reaped and the pipe has reached end of file
\* (WaitDelay is zero: the copying goroutine is awaited without limit)
WaitReturn ==
    /\ pc = "waiting"
    /\ child \in {"exit0", "exit1", "killed"}
    /\ desc # "running"
    /\ werr' \in IF child # "exit0" THEN {"exit"}
                 ELSE IF ctxErr # "none" THEN {"nil", "ctx"}
                 ELSE {"nil"}
    /\ pc' = "respond"
    /\ UNCHANGED <<files, eps, phase, req, sel, pv, params, ti, res, out,
                   ctxErr, child, desc, buf, resp, hist>>

\* main.go 314-325: the response of a request that reached execution
Respond ==
    /\ pc = "respond"
    /\ resp' = IF werr # "nil"
               THEN [status |-> eps[sel].Error, body |-> "output", out |-> buf,
                     marker |-> ctxErr = "deadline"]
               ELSE [status |-> 200, body |-> "output", out |-> buf, marker |-> FALSE]
    /\ pc' = "done"
    /\ UNCHANGED <<files, eps, phase, req, sel, pv, params, ti, res, out,
                   ctxErr, child, desc, buf, werr, hist>>

-----------------------------------------------------------------------------
(* Inputs *)

\* the sequences over S of length 1..n
RECURSIVE SeqsUpTo(_, _)
SeqsUpTo(S, n) ==
    IF n = 0 THEN {}
    ELSE LET shorter == SeqsUpTo(S, n - 1)
         IN  {<<x>> : x \in S} \cup shorter \cup {Append(s, x) : s \in shorter, x \in S}

A == <<"a">>
B == <<"b">>

\* a definition with every field in order
BaseDef ==
    [json |-> TRUE, URI |-> <<"/", "r", "/", ":", "a">>, Method |-> "GET",
     Query |-> EmptyMap, Body |-> EmptyMap, Auth |-> <<"H", ":", "t">>,
     TTL |-> <<"1", "s">>, Error |-> 0, Script |-> << <<"x">>, <<"{", "a", "}">> >>]

\* the definitions the served registries are built from: two that match the
\* same GET paths, one on the health path, one for another method and header
ServeDefs ==
    { [BaseDef EXCEPT !.Query = (A :> <<"q">>), !.Body = (A :> <<"d">>)],
      [BaseDef EXCEPT !.URI = <<"/", "r", "/", "*", "b">>, !.Auth = <<"H", ":", "u">>,
                      !.TTL = <<>>, !.Error = 502, !.Script = << <<"x">>, <<"{", "b">> >>],
      [BaseDef EXCEPT !.URI = HealthPath, !.TTL = <<"0", "s">>, !.Script = << <<"x">> >>],
      [BaseDef EXCEPT !.Method = "POST", !.Auth = <<"K", ":", " ", "t">>, !.Error = 404,
                      !.Body = (A :> <<"d">>), !.Script = << <<"{", "a", "}", "{", "b", "}">> >>] }

ServeDirs == SeqsUpTo(ServeDefs, MaxFiles)

Methods == {"GET", "POST"}

Paths == { HealthPath, <<"/", "r", "/", "x">>, <<"/", "r", "/">>, <<"/", "x">> }

Headers ==
    { EmptyMap, (<<"H">> :> <<"t">>), (<<"H">> :> <<"u">>),
      (<<"K">> :> <<"t">>), (<<"H">> :> <<"t">>) @@ (<<"K">> :> <<"t">>) }

Queries == { EmptyMap, (A :> << <<"u">>, <<"v">> >>) }

Bodies ==
    { [kind |-> "none", fields |-> EmptyMap],
      [kind |-> "nonobject", fields |-> EmptyMap],
      [kind |-> "object", fields |-> (A :> [t |-> "string", v |-> <<"j">>])] }

Requests ==
    [Method : Methods, Path : Paths, Header : Headers, Query : Queries, Body : Bodies]

-----------------------------------------------------------------------------
(* Specifications *)

Idle ==
    /\ req = NoReq
    /\ pc = "idle"
    /\ sel = 0
    /\ pv = EmptyMap
    /\ params = EmptyMap
    /\ ti = 0
    /\ res = <<>>
    /\ out = <<>>
    /\ ctxErr = "none"
    /\ child = "none"
    /\ desc = "none"
    /\ buf = 0
    /\ werr = "unset"
    /\ resp = NoResp
    /\ hist = NoHist

\* the process starts with a configuration directory and no request
Init ==
    /\ files \in ServeDirs
    /\ eps = <<>>
    /\ phase = "boot"
    /\ Idle

Next ==
    \/ Boot
    \/ \E r \in Requests : Receive(r)
    \/ Health
    \/ Dispatch
    \/ ResolveParams
    \/ TemplateStep
    \/ Spawn
    \/ DeadlineElapse
    \/ ClientCancel
    \/ Kill
    \/ ChildFork
    \/ ChildWrite
    \/ \E s \in {"exit0", "exit1"} : ChildExit(s)
    \/ DescExit
    \/ WaitReturn
    \/ Respond

Spec == Init /\ [][Next]_vars

-----------------------------------------------------------------------------
(* Claims about routing and authentication *)

\* the endpoints whose method and matcher accept the request
MatchSet(r) ==
    {i \in 1..Len(eps) : eps[i].Method = r.Method /\ pathVars(eps[i], r.Path).ok}

Smallest(S) == CHOOSE i \in S : \A j \in S : i <= j

\* the request matches an endpoint and does not carry the token of the first
\* endpoint it matches
AuthFails(r) ==
    /\ MatchSet(r) # {}
    /\ Lookup(r.Header, eps[Smallest(MatchSet(r))].header) # eps[Smallest(MatchSet(r))].token

NothingRan == ~hist.merged /\ ~hist.expanded /\ ~hist.spawned /\ child = "none"

\* C1 as stated: every request that matches an endpoint and fails its auth is
\* answered 401 with no parameter resolution, expansion or execution
C1_Unconditional ==
    (pc # "idle" /\ AuthFails(req)) =>
        (NothingRan /\ (pc = "done" => resp.status = 401))

\* C1 amended: a request other than /health that matches an endpoint and fails
\* its auth is answered 401 (a /health request is answered by the health
\* handler); in both cases nothing is resolved, expanded or executed, and a
\* child is spawned only after the selected endpoint's auth check has passed
C1_AuthGate ==
    /\ (pc # "idle" /\ AuthFails(req)) =>
          /\ NothingRan
          /\ (pc = "done" /\ req.Path # HealthPath) => resp.status = 401
          /\ (pc = "done" /\ req.Path = HealthPath) => resp.status = 200
    /\ (hist.spawned \/ child # "none") =>
          /\ sel # 0
          /\ hist.authed
          /\ Lookup(req.Header, eps[sel].header) = eps[sel].token

\* a request carrying a wrong token for the endpoint it matches was answered
C1_Witness ==
    /\ pc = "done"
    /\ req.Path # HealthPath
    /\ AuthFails(req)
    /\ Lookup(req.Header, eps[sel].header) # <<>>
    /\ resp.status = 401

\* the dispatcher's answer to a request no endpoint matches (http.NotFound)
NotFound == resp.status = 404 /\ resp.body = "not found"

-----------------------------------------------------------------------------
(* Parameter resolution: requests to one endpoint over every combination of
   the five sources *)

\* the mappings of a's and b's: a absent or one of two values, b absent or set
MapsOf(va, vb) ==
    {EmptyMap} \cup {A :> x : x \in va} \cup {B :> y : y \in vb}
        \cup {(A :> x) @@ (B :> y) : x \in va, y \in vb}

Values == {<<"1">>, <<"2">>}

JSONValues ==
    {[t |-> "string", v |-> <<"1">>], [t |-> "number", v |-> <<"2">>],
     [t |-> "true", v |-> <<>>], [t |-> "null", v |-> <<>>],
     [t |-> "other", v |-> <<"[", "]">>]}

MergeBodies ==
    {[kind |-> k, fields |-> EmptyMap] : k \in {"none", "garbage", "nonobject", "null"}}
        \cup {[kind |-> "object", fields |-> f] :
                 f \in MapsOf(JSONValues, {[t |-> "string", v |-> <<"1">>]})}

MergeQueries == MapsOf({<<x>> : x \in Values} \cup {<< <<"2">>, <<"1">> >>}, {<< <<"1">> >>})

MergeURIs ==
    { <<"/", "r">>, <<"/", ":", "a">>, <<"/", ":", "a", "/", ":", "b">>,
      <<"/", "r", "/", ":", "b">> }

MergePaths ==
    { <<"/", "r">>, <<"/", "1">>, <<"/", "2", "/", "1">>, <<"/", "r", "/", "1">> }

\* the server has loaded one endpoint with any defaults and uri, and got a
\* request carrying its token with any path, URL query and body
InitMerge ==
    /\ \E u \in MergeURIs, dq \in MapsOf(Values, {<<"1">>}), db \in MapsOf(Values, {<<"2">>}) :
          /\ files = << [BaseDef EXCEPT !.URI = u, !.Query = dq, !.Body = db] >>
          /\ eps = << mustEndpointFromFile(files[1]).ep >>
    /\ phase = "serving"
    /\ req \in [Method : {"GET"}, Path : MergePaths,
                Header : {<<"H">> :> <<"t">>}, Query : MergeQueries, Body : MergeBodies]
    /\ pc = "mux"
    /\ sel = 0
    /\ pv = EmptyMap
    /\ params = EmptyMap
    /\ ti = 0
    /\ res = <<>>
    /\ out = <<>>
    /\ ctxErr = "none"
    /\ child = "none"
    /\ desc = "none"
    /\ buf = 0
    /\ werr = "unset"
    /\ resp = NoResp
    /\ hist = NoHist

NextMerge == Dispatch \/ ResolveParams

SpecMerge == InitMerge /\ [][NextMerge]_vars

\* the sources of a request in increasing precedence, the body as the string
\* forms of the fields of a JSON object
Sources ==
    << eps[sel].Query, eps[sel].Body, pv,
       [k \in DOMAIN req.Query |-> req.Query[k][1]],
       IF req.Body.kind = "object"
       THEN [k \in DOMAIN req.Body.fields |-> toString(req.Body.fields[k])]
       ELSE EmptyMap >>

Has(k) == {n \in 1..5 : k \in DOMAIN Sources[n]}

Largest(S) == CHOOSE n \in S : \A m \in S : m <= n

\* C3: every name resolves to the value of the highest source that has it, a
\* name no source has is not resolved, and a body that is no JSON object
\* changes nothing and fails nothing
C3_Precedence ==
    hist.merged =>
        /\ pc = "template"
        /\ resp = NoResp
        /\ DOMAIN params = {k \in {A, B} : Has(k) # {}}
        /\ \A k \in DOMAIN params : params[k] = Sources[Largest(Has(k))][k]

\* a name that all five sources have, with a body value unlike the others
C3_Witness ==
    /\ hist.merged
    /\ Has(A) = 1..5
    /\ \A n \in 1..4 : Sources[n][A] # Sources[5][A]
    /\ params[A] = Sources[5][A]

\* C4: the answer to a failed expansion is 400 with no process started
\* before or after it, nothing is executed on an expansion that did not
\* complete, and a script with a "{" that no "}" follows is answered so
Unclosed(tok) ==
    \E i \in 1..Len(tok) : tok[i] = "{" /\ \A j \in (i + 1)..Len(tok) : tok[j] # "}"

BadTemplate == resp.status = 400 /\ resp.body = "bad template"

C4_TemplateError ==
    /\ resp.body = "bad template" =>
          (resp.status = 400 /\ pc = "done" /\ ~hist.spawned /\ child = "none"
             /\ werr = "unset")
    /\ (pc \in {"exec", "waiting", "respond"} \/ hist.spawned \/ werr # "unset") =>
          /\ Len(out) = Len(eps[sel].Script)
          /\ \A i \in 1..Len(out) : ~Unclosed(out[i])
    /\ (pc = "done" /\ hist.expanded /\ \E i \in 1..Len(eps[sel].Script) :
                                           Unclosed(eps[sel].Script[i])) =>
          BadTemplate

\* an authenticated request to an endpoint with a malformed script got its 400
C4_Witness ==
    /\ pc = "done"
    /\ hist.authed
    /\ \E i \in 1..Len(eps[sel].Script) : Unclosed(eps[sel].Script[i])
    /\ BadTemplate
    /\ ~hist.spawned

-----------------------------------------------------------------------------
(* Template expansion: requests to one endpoint over scripts and parameter
   values *)

Tokens ==
    { <<"x">>, <<"{", "a", "}">>, <<"{", "a">>, <<"x", "{", "b", "}", "{", "a", "}">>,
      <<"}", "{", "a", "}">>, <<"{", "}">> }

TemplateValues ==
    { <<>>, <<"x">>, <<"{", "b", "}">>, <<"{", "a", "}">>, <<"{">>, <<"}", "x">> }

TemplateQueries == MapsOf({<<v>> : v \in TemplateValues}, {<<v>> : v \in TemplateValues})

\* the server has loaded one endpoint with any script, and got a request
\* carrying its token with any URL query
InitTemplate ==
    /\ \E s \in SeqsUpTo(Tokens, MaxScript) :
          /\ files = << [BaseDef EXCEPT !.URI = <<"/", "r">>, !.Script = s] >>
          /\ eps = << mustEndpointFromFile(files[1]).ep >>
    /\ phase = "serving"
    /\ req \in [Method : {"GET"}, Path : {<<"/", "r">>}, Header : {<<"H">> :> <<"t">>},
                Query : TemplateQueries, Body : {[kind |-> "none", fields |-> EmptyMap]}]
    /\ pc = "mux"
    /\ sel = 0
    /\ pv = EmptyMap
    /\ params = EmptyMap
    /\ ti = 0
    /\ res = <<>>
    /\ out = <<>>
    /\ ctxErr = "none"
    /\ child = "none"
    /\ desc = "none"
    /\ buf = 0
    /\ werr = "unset"
    /\ resp = NoResp
    /\ hist = NoHist

NextTemplate == Dispatch \/ ResolveParams \/ TemplateStep

SpecTemplate == InitTemplate /\ [][NextTemplate]_vars

\* the expansion that never looks at inserted text: each placeholder of the
\* token is replaced once, left to right
RECURSIVE SinglePass(_, _)
SinglePass(s, ps) ==
    LET b == Index(s, "{")
        e == Index(Slice(s, b + 1, Len(s)), "}")
        close == e + b + 1
    IN  IF b < 0 \/ e < 0 THEN s
        ELSE Slice(s, 0, b) \o Lookup(ps, Slice(s, b + 1, close))
                \o SinglePass(Slice(s, close + 1, Len(s)), ps)

\* C5: substitution is not recursive: an expanded argument is its token with
\* each placeholder replaced once and the inserted text left as it is
C5_NonRecursive ==
    pc = "exec" =>
        \A i \in 1..Len(out) : out[i] = SinglePass(eps[sel].Script[i], params)

\* every "{" of the token is followed by a "}" later in the token
WellFormed(tok) == ~Unclosed(tok)

\* C6: a script whose every "{" is closed expands for every mapping, to as
\* many arguments as it has tokens, absent names giving the empty string
C6_OnlyTemplatesFail ==
    (sel # 0 /\ \A i \in 1..Len(eps[sel].Script) : WellFormed(eps[sel].Script[i])) =>
        /\ resp.body # "bad template"
        /\ pc = "exec" =>
              /\ Len(out) = Len(eps[sel].Script)
              /\ params = EmptyMap =>
                    \A i \in 1..Len(out) :
                        out[i] = SinglePass(eps[sel].Script[i], EmptyMap)

-----------------------------------------------------------------------------
(* Claims about execution *)

\* the command failed because the timeout expired: it was refused or killed on
\* the deadline
TimedOut == ctxErr = "deadline" /\ (child = "killed" \/ werr = "ctx")

\* C7: a failed command is answered with the endpoint's error status and the
\* captured output, and the marker is there exactly when the failure was the
\* expiry of the timeout
C7_MarkerIffTimeout ==
    (pc = "done" /\ werr \notin {"unset", "nil"}) =>
        /\ resp.status = eps[sel].Error
        /\ resp.out = buf
        /\ resp.marker <=> TimedOut

\* the handler, the timer and the kill on a done context always get to run;
\* nothing makes a command or its descendants end
Fairness ==
    /\ WF_vars(Boot)
    /\ WF_vars(Health)
    /\ WF_vars(Dispatch)
    /\ WF_vars(ResolveParams)
    /\ WF_vars(TemplateStep)
    /\ WF_vars(Spawn)
    /\ WF_vars(DeadlineElapse)
    /\ WF_vars(Kill)
    /\ WF_vars(WaitReturn)
    /\ WF_vars(Respond)

\* the process starts with one definition in its configuration directory
InitFair ==
    /\ files \in SeqsUpTo(ServeDefs, 1)
    /\ eps = <<>>
    /\ phase = "boot"
    /\ Idle

FairSpec == InitFair /\ [][Next]_vars /\ Fairness

\* C8: once the timeout of a request in execution has elapsed, the handler
\* stops waiting and writes its response
C8_TimeoutEndsWait == (pc = "waiting" /\ ctxErr = "deadline") ~> (pc = "done")

-----------------------------------------------------------------------------
(* Loading on its own: definitions that differ from a sound one in one field *)

LoadURIs ==
    { <<>>, <<"/">>, <<"/", "a">>, <<"/", "a", "/">>, <<"/", "a", "/", "/", "b">>,
      <<"/", ":", "a">>, <<"/", ":", "a", "/", ":", "b">>, <<"/", "*", "r">>,
      <<"/", "a", "/", "*", "r">>, <<"/", "*", "r", "/", "a">>, <<"/", ":">>,
      <<"/", "a", "/", ":", "b", "/">> }

LoadAuths ==
    { <<>>, <<"H">>, <<"H", ":", " ">>, <<":", "t">>, <<" ", "H", " ", ":", " ", "t", " ">>,
      <<"H", ":", "t", ":", "u">> }

LoadTTLs ==
    { <<>>, <<"0", "s">>, <<"-", "1", "s">>, <<"1", "m", "8", "s">>, <<"8">>, <<"x">>,
      <<"0">>, <<"1", "s", "x">> }

LoadDefs ==
    {[BaseDef EXCEPT !.URI = u] : u \in LoadURIs}
        \cup {[BaseDef EXCEPT !.Auth = a] : a \in LoadAuths}
        \cup {[BaseDef EXCEPT !.TTL = d] : d \in LoadTTLs}
        \cup {[BaseDef EXCEPT !.Method = ""], [BaseDef EXCEPT !.Script = <<>>],
              [BaseDef EXCEPT !.json = FALSE], [BaseDef EXCEPT !.Error = 502]}

InitLoad ==
    /\ files \in SeqsUpTo(LoadDefs, MaxFiles)
    /\ eps = <<>>
    /\ phase = "boot"
    /\ Idle

NextLoad == Boot

SpecLoad == InitLoad /\ [][NextLoad]_vars

\* the path segments of a uri template that are wildcards
WildSegments(uri) ==
    {i \in 1..Len(Split(uri, "/")) :
        Split(uri, "/")[i] # <<>> /\ Split(uri, "/")[i][1] = "*"}

\* C9: every endpoint of a loaded registry has a uri, a method, an auth header
\* name, a token and a script, a timeout above zero, and at most one wildcard
\* segment, the last one
C9_DataModel ==
    phase = "serving" =>
        \A i \in 1..Len(eps) :
            /\ eps[i].URI # <<>>
            /\ eps[i].Method # ""
            /\ eps[i].header # <<>>
            /\ eps[i].token # <<>>
            /\ Len(eps[i].Script) > 0
            /\ eps[i].timeout > 0
            /\ Cardinality(WildSegments(eps[i].URI)) <= 1
            /\ \A w \in WildSegments(eps[i].URI) : w = Len(Split(eps[i].URI, "/"))

RoundTripTokens == {<<"x">>, <<"a", "b">>}

\* the segments of a uri template that are ":name" captures
CaptureSegments(uri) ==
    {i \in 1..Len(Split(uri, "/")) :
        Split(uri, "/")[i] # <<>> /\ Split(uri, "/")[i][1] = ":"}

\* the uri with its capture segments replaced by the tokens of asg
Instantiate(uri, asg) ==
    LET segs == Split(uri, "/")
    IN  Join([i \in 1..Len(segs) |-> IF i \in DOMAIN asg THEN asg[i] ELSE segs[i]])

\* C10: the uri of a loaded endpoint with its captures replaced by tokens is
\* accepted by the endpoint's matcher, and each capture gets its token
C10_RoundTrip ==
    phase = "serving" =>
        \A i \in 1..Len(eps) :
            \A asg \in [CaptureSegments(eps[i].URI) -> RoundTripTokens] :
                LET got == pathVars(eps[i], Instantiate(eps[i].URI, asg))
                IN  /\ got.ok
                    /\ \A c \in CaptureSegments(eps[i].URI) :
                          Lookup(got.vars, Tail(Split(eps[i].URI, "/")[c])) = asg[c]

-----------------------------------------------------------------------------
(* Claims about the health route *)

\* C11: a request to /health is answered 200 "ok" whatever its headers and
\* whatever the registry holds, with no endpoint selected, no auth check and
\* nothing resolved, expanded or executed
C11_HealthAlwaysOk ==
    (pc # "idle" /\ req.Path = HealthPath) =>
        /\ pc \in {"mux", "done"}
        /\ sel = 0
        /\ ~hist.authed
        /\ NothingRan
        /\ werr = "unset"
        /\ pc = "done" => (resp.status = 200 /\ resp.body = "ok")

\* a /health request without the token of a loaded endpoint of uri /health and
\* the request's method was answered
C11_Witness ==
    /\ pc = "done"
    /\ req.Path = HealthPath
    /\ AuthFails(req)
    /\ \E i \in MatchSet(req) : eps[i].URI = HealthPath
    /\ resp.status = 200

-----------------------------------------------------------------------------
(* Claims about the order of the registry *)

\* the orders in which the loader can discover the definitions of fs
Discoveries(fs) ==
    {g \in [1..Len(fs) -> Range(fs)] :
        \E f \in [1..Len(fs) -> 1..Len(fs)] :
            /\ \A i, j \in 1..Len(fs) : i # j => f[i] # f[j]
            /\ \A i \in 1..Len(fs) : g[i] = fs[f[i]]}

\* C12: a loaded registry is in non-decreasing order of uri, and it is the
\* registry every load of the same definitions gives, in whatever order they
\* are discovered
C12_OrderBySetAlone ==
    phase = "serving" =>
        /\ \A i, j \in 1..Len(eps) : i < j => ~StrLess(eps[j].URI, eps[i].URI)
        /\ \A g \in Discoveries(files) :
              \A r \in loadEndpoints(g) : ~r.err /\ r.eps = eps

-----------------------------------------------------------------------------
(* Claims about the termination of the expansion *)

\* the handler goroutine always gets to run its next step; in the expansion a
\* step is always possible, and one that rewrites res to itself (a = "{a}")
\* is an iteration of the loop that leaves the state as it was
FairTemplate ==
    /\ InitTemplate
    /\ [][NextTemplate]_vars
    /\ WF_vars(Dispatch)
    /\ WF_vars(ResolveParams)
    /\ WF_vars(TemplateStep)

\* C13: the expansion of a script always comes to an end, also when a parameter
\* value holds a placeholder: a request that has passed auth and is being
\* expanded eventually gets the 400 response or reaches process execution
C13_TemplateTerminates == (pc = "template") ~> (pc \in {"exec", "done"})

====
